---- MODULE Spec2Model ----
(***************************************************************************)
(* Cart and favourites state manager of src/main.js: the two in-memory     *)
(* collections, their localStorage entries, the derived UI state and the   *)
(* handlers that mutate them.                                              *)
(*                                                                         *)
(* Strings the code inspects character by character (product ids, variant  *)
(* texts, cart keys) are sequences of one-character strings.  Prices are   *)
(* records [kind, v]: a number (kind "num", v in cents), NaN (what         *)
(* parseFloat gives for unparsable text) or null (what JSON gives back for *)
(* NaN).  A localStorage entry is a record [present, wellFormed, items]:   *)
(* the JSON text of a sequence of items, or text JSON.parse rejects.       *)
(***************************************************************************)
EXTENDS Integers, Sequences, FiniteSets, TLC

VARIABLES store, page, cart, favorites, ui, last, other, tab

\* page, cart, favorites, ui: the page instance the visitor is looking at, which
\* is instance number tab; other: the second page instance of the same browser;
\* store: the localStorage the two share

vars == <<store, page, cart, favorites, ui, last, other, tab>>

----------------------------------------------------------------------------
(* Bounds of the model *)

MaxQty == 2

----------------------------------------------------------------------------
(* Values *)

Num(n) == [kind |-> "num", v |-> n]

NaN == [kind |-> "NaN", v |-> 0]

NullValue == [kind |-> "null", v |-> 0]

NoVariant == [null |-> TRUE, text |-> <<>>]

Variant(t) == [null |-> FALSE, text |-> t]

P1 == <<"p", "1">>

P2 == <<"p", "2">>

ProductIds == {P1, P2}

\* data-* attributes of the product elements the pages carry: the price is
\* dataset.price after parseFloat (line 358), NaN when the text is unparsable
Datasets ==
  { [id |-> P1, name |-> "Shoe", price |-> Num(10000), image |-> "img1"],
    [id |-> P1, name |-> "Shoe Pro", price |-> Num(25000), image |-> "img3"],
    [id |-> P2, name |-> "Boot", price |-> NaN, image |-> "img2"] }

Variants == { NoVariant, Variant(<<"4", " ", "2">>), Variant(<<"4", "-", "2">>) }

\* the calls of addItemToCart the model makes: the two descriptions of product p1
\* with variant texts that give one key, and product p2 without a variant
AddInputs ==
  { [d |-> d, variant |-> IF d.name = "Shoe" THEN Variant(<<"4", " ", "2">>)
                          ELSE IF d.name = "Shoe Pro" THEN Variant(<<"4", "-", "2">>)
                          ELSE NoVariant] : d \in Datasets }

\* the calls of toggleFavorite the model makes
FavInputs == { d \in Datasets : d.name \in {"Shoe", "Boot"} }

Deltas == {-2, -1, 1, 2}

\* the elements a page may or may not carry (lines 35-45 and the product cards)
PageKinds ==
  { [cartBody |-> TRUE, cartTotal |-> TRUE, cartItemCount |-> TRUE,
     favoritesCount |-> TRUE, modal |-> TRUE, products |-> TRUE],
    [cartBody |-> FALSE, cartTotal |-> FALSE, cartItemCount |-> FALSE,
     favoritesCount |-> FALSE, modal |-> FALSE, products |-> FALSE] }

NoElements == [cartBody |-> FALSE, cartTotal |-> FALSE, cartItemCount |-> FALSE,
               favoritesCount |-> FALSE, modal |-> FALSE, products |-> FALSE]

----------------------------------------------------------------------------
(* Sequences *)

Ids(s) == { s[i].id : i \in 1..Len(s) }

\* Array.prototype.findIndex: the first index whose item has this id, 0 if none
\* (JavaScript's -1)
FindIndex(s, id) ==
  IF id \in Ids(s) THEN CHOOSE i \in 1..Len(s) : s[i].id = id /\ \A j \in 1..(i - 1) : s[j].id # id
  ELSE 0

\* Array.prototype.filter(item => item.id !== id)
RECURSIVE FilterOut(_, _)
FilterOut(s, id) ==
  IF s = <<>> THEN <<>>
  ELSE IF Head(s).id = id THEN FilterOut(Tail(s), id)
  ELSE <<Head(s)>> \o FilterOut(Tail(s), id)

\* splice(i) without the count: everything from i on is removed
SpliceToEnd(s, i) == SubSeq(s, 1, i - 1)

\* Array.prototype.splice(i, 1)
Splice(s, i) == [j \in 1..(Len(s) - 1) |-> IF j < i THEN s[j] ELSE s[j + 1]]

----------------------------------------------------------------------------
(* Persistent store: JSON.stringify / JSON.parse / localStorage *)

AbsentEntry == [present |-> FALSE, wellFormed |-> TRUE, items |-> <<>>]

MalformedEntry == [present |-> TRUE, wellFormed |-> FALSE, items |-> <<>>]

\* JSON has no NaN: JSON.stringify writes it as null
JSONValue(p) == IF p.kind = "NaN" THEN NullValue ELSE p

JSONstringify(items) ==
  [present |-> TRUE, wellFormed |-> TRUE,
   items |-> [i \in 1..Len(items) |-> [items[i] EXCEPT !.price = JSONValue(@)]]]

\* JSON.parse(localStorage.getItem(key)) raises SyntaxError on text that is not JSON
ParseRaises(entry) == entry.present /\ ~entry.wellFormed

\* JSON.parse(localStorage.getItem(key)) || [] : getItem gives null for an absent
\* key, JSON.parse(null) is null, and null || [] is []
LoadCollection(entry) == IF entry.present THEN entry.items ELSE <<>>

----------------------------------------------------------------------------
(* Numbers of JavaScript, as far as the cart uses them *)

\* price * quantity: NaN stays NaN, null converts to 0
Times(p, q) ==
  IF p.kind = "NaN" THEN NaN
  ELSE IF p.kind = "null" THEN Num(0)
  ELSE Num(p.v * q)

Plus(a, b) == IF a.kind = "NaN" \/ b.kind = "NaN" THEN NaN ELSE Num(a.v + b.v)

\* item.price.toFixed(2) raises TypeError when price is null
ToFixedRaises(p) == p.kind = "null"

----------------------------------------------------------------------------
(* Cart *)

\* replace(' ', '-') in place of the regular expression: only the space counts
IsWhitespaceSpaceOnly(ch) == ch = " "

IsWhitespace(ch) == ch \in {" ", "\t", "\n"}

\* variant.replace(/\s/g, '-')
ReplaceWhitespace(t) == [i \in 1..Len(t) |-> IF IsWhitespace(t[i]) THEN "-" ELSE t[i]]

\* a variant is truthy unless it is null or the empty string
Truthy(variant) == ~variant.null /\ variant.text # <<>>

\* const cartItemId = variant ? `${id}-${variant.replace(/\s/g, '-')}` : id
CartItemId(id, variant) ==
  IF Truthy(variant) THEN id \o <<"-">> \o ReplaceWhitespace(variant.text) ELSE id

\* addItemToCart without the lookup: every call pushes
AddItemListDup(c, cartItemId, name, price, image, variant) ==
  Append(c, [id |-> cartItemId, name |-> name, price |-> price,
             image |-> image, quantity |-> 1, variant |-> variant])

\* addItemToCart that refreshes the fields of the item it finds
AddItemListOverwrite(c, cartItemId, name, price, image, variant) ==
  LET k == FindIndex(c, cartItemId) IN
    IF k > 0
    THEN [c EXCEPT ![k] = [id |-> cartItemId, name |-> name, price |-> price,
                           image |-> image, quantity |-> c[k].quantity + 1,
                           variant |-> variant]]
    ELSE Append(c, [id |-> cartItemId, name |-> name, price |-> price,
                    image |-> image, quantity |-> 1, variant |-> variant])

\* addItemToCart with unshift in place of push
AddItemListUnshift(c, cartItemId, name, price, image, variant) ==
  LET k == FindIndex(c, cartItemId) IN
    IF k > 0 THEN [c EXCEPT ![k].quantity = @ + 1]
    ELSE <<[id |-> cartItemId, name |-> name, price |-> price,
            image |-> image, quantity |-> 1, variant |-> variant]>> \o c

\* the cart after lines 148-154 of addItemToCart
AddItemList(c, cartItemId, name, price, image, variant) ==
  LET k == FindIndex(c, cartItemId) IN
    IF k > 0 THEN [c EXCEPT ![k].quantity = @ + 1]
    ELSE Append(c, [id |-> cartItemId, name |-> name, price |-> price,
                    image |-> image, quantity |-> 1, variant |-> variant])

\* updateItemQuantity that removes only below zero
UpdateQuantityListStrict(c, id, change) ==
  LET k == FindIndex(c, id)
      c2 == [c EXCEPT ![k].quantity = @ + change]
  IN IF c2[k].quantity < 0 THEN FilterOut(c2, id) ELSE c2

\* the cart after lines 168-172 of updateItemQuantity, for an id the cart holds
UpdateQuantityList(c, id, change) ==
  LET k == FindIndex(c, id)
      c2 == [c EXCEPT ![k].quantity = @ + change]
  IN IF c2[k].quantity <= 0 THEN FilterOut(c2, id) ELSE c2

\* cart.reduce((sum, item) => sum + (item.price * item.quantity), 0)
RECURSIVE Subtotal(_)
Subtotal(c) ==
  IF c = <<>> THEN Num(0)
  ELSE Plus(Subtotal(SubSeq(c, 1, Len(c) - 1)), Times(c[Len(c)].price, c[Len(c)].quantity))

\* cart.reduce((sum, item) => sum + item.quantity, 0)
RECURSIVE TotalItems(_)
TotalItems(c) == IF c = <<>> THEN 0 ELSE c[1].quantity + TotalItems(Tail(c))

----------------------------------------------------------------------------
(* UI projection *)

\* the document as the markup gives it, before any script has written to it
InitialUI ==
  [cartBody |-> [kind |-> "html", items |-> <<>>],
   cartTotal |-> [kind |-> "html", v |-> 0],
   cartItemCount |-> [kind |-> "html", text |-> 0, display |-> "css"],
   favoritesCount |-> [kind |-> "html", text |-> 0, display |-> "css"],
   icons |-> {},
   overlayActive |-> FALSE,
   modalActive |-> FALSE]

RenderRaises(c, els) == els.cartBody /\ \E i \in 1..Len(c) : ToFixedRaises(c[i].price)

renderCartItems(c, u, els) ==
  IF ~els.cartBody THEN u
  ELSE IF c = <<>> THEN [u EXCEPT !.cartBody = [kind |-> "vazio", items |-> <<>>]]
  ELSE [u EXCEPT !.cartBody =
          [kind |-> "items",
           items |-> [i \in 1..Len(c) |-> [id |-> c[i].id, quantity |-> c[i].quantity]]]]

renderSubtotal(c, u, els) ==
  IF ~els.cartTotal THEN u ELSE [u EXCEPT !.cartTotal = Subtotal(c)]

updateCartIconCount(c, u, els) ==
  IF ~els.cartItemCount THEN u
  ELSE [u EXCEPT !.cartItemCount =
          [kind |-> "set", text |-> TotalItems(c),
           display |-> IF TotalItems(c) > 0 THEN "block" ELSE "none"]]

\* updateCart: [raised, ui, store] after the call; an exception in
\* renderCartItems leaves the rest of the function undone
updateCart(c, u, els, s) ==
  IF RenderRaises(c, els) THEN [raised |-> TRUE, ui |-> u, store |-> s]
  ELSE [raised |-> FALSE,
        ui |-> updateCartIconCount(c, renderSubtotal(c, renderCartItems(c, u, els), els), els),
        store |-> [s EXCEPT !.shoppingCart = JSONstringify(c)]]

----------------------------------------------------------------------------
(* Favourites *)

\* toggleFavorite without the lookup: every call pushes
ToggleFavoriteListAppend(f, id, name, price, image) ==
  Append(f, [id |-> id, name |-> name, price |-> price, image |-> image])

\* the favourites after lines 252-260 of toggleFavorite
ToggleFavoriteList(f, id, name, price, image) ==
  LET existingIndex == FindIndex(f, id) IN
    IF existingIndex > 0 THEN Splice(f, existingIndex)
    ELSE Append(f, [id |-> id, name |-> name, price |-> price, image |-> image])

updateFavoriteIconState(f, u, els) ==
  IF ~els.products THEN u ELSE [u EXCEPT !.icons = ProductIds \cap Ids(f)]

updateFavoritesCount(f, u, els) ==
  IF ~els.favoritesCount THEN u
  ELSE [u EXCEPT !.favoritesCount =
          [kind |-> "set", text |-> Len(f),
           display |-> IF Len(f) > 0 THEN "block" ELSE "none"]]

\* updateFavorites without the setItem of line 270
updateFavoritesNoSave(f, u, els, s) ==
  [ui |-> updateFavoritesCount(f, updateFavoriteIconState(f, u, els), els),
   store |-> s]

\* updateFavorites writing under the key of the cart
updateFavoritesWrongKey(f, u, els, s) ==
  [ui |-> updateFavoritesCount(f, updateFavoriteIconState(f, u, els), els),
   store |-> [s EXCEPT !.shoppingCart = JSONstringify(f)]]

updateFavorites(f, u, els, s) ==
  [ui |-> updateFavoritesCount(f, updateFavoriteIconState(f, u, els), els),
   store |-> [s EXCEPT !.favorites = JSONstringify(f)]]

----------------------------------------------------------------------------
(* History of the last handler, for the properties *)

\* toggleFavorite has no return statement: a call evaluates to undefined
toggleFavoriteReturn == "undefined"

\* op: the handler; id: the key or id it worked on; found: whether the collection
\* held it before the call; raised: whether an exception ended the handler;
\* ret: what the call returned; name: the name it was passed; preIds: the
\* favourite ids before the call; again: the handler before it was toggleFavorite
\* with the same id, and pre2Ids the favourite ids before that one; cartSrc,
\* favSrc: what a page load found under the two keys; pid, variant: the product
\* id and the variant addItemToCart was passed; click: the call was made by the
\* click handler of the add-to-cart button; tab: the page instance the handler
\* ran in
NoCall ==
  [op |-> "none", id |-> <<>>, found |-> FALSE, raised |-> FALSE,
   ret |-> "undefined", name |-> "", preIds |-> {}, again |-> FALSE,
   pre2Ids |-> {}, cartSrc |-> "", favSrc |-> "",
   pid |-> <<>>, variant |-> NoVariant, click |-> FALSE, tab |-> 0]

Call(op, id, found, raised) ==
  [NoCall EXCEPT !.op = op, !.id = id, !.found = found, !.raised = raised,
                 !.tab = tab]

EntryKind(entry) ==
  IF ~entry.present THEN "absent" ELSE IF ~entry.wellFormed THEN "malformed" ELSE "json"

----------------------------------------------------------------------------
(* Handlers *)

\* a page instance that has not run the script yet
NotOpened ==
  [page |-> [status |-> "unloaded", els |-> NoElements],
   cart |-> <<>>, favorites |-> <<>>, ui |-> InitialUI]

Init ==
  /\ store = [shoppingCart |-> AbsentEntry, favorites |-> AbsentEntry]
  /\ page = [status |-> "unloaded", els |-> NoElements]
  /\ cart = <<>>
  /\ favorites = <<>>
  /\ ui = InitialUI
  /\ last = NoCall
  /\ other = NotOpened
  /\ tab = 1

\* the DOMContentLoaded callback, lines 23-428, on a page with the elements els
PageLoad(els) ==
  IF ParseRaises(store.shoppingCart) \/ ParseRaises(store.favorites)
  THEN \* line 51 or 53 raises: nothing after it runs, no listener is registered
    /\ page' = [status |-> "dead", els |-> els]
    /\ cart' = <<>>
    /\ favorites' = <<>>
    /\ ui' = InitialUI
    /\ last' = [Call("load", <<>>, FALSE, TRUE) EXCEPT
                  !.cartSrc = EntryKind(store.shoppingCart),
                  !.favSrc = EntryKind(store.favorites)]
    /\ UNCHANGED <<store, other, tab>>
  ELSE
    LET c == LoadCollection(store.shoppingCart)
        f == LoadCollection(store.favorites)
        r == updateCart(c, InitialUI, els, store)
        g == updateFavorites(f, r.ui, els, r.store)
    IN /\ UNCHANGED <<other, tab>>
       /\ page' = [status |-> "ready", els |-> els]
       /\ cart' = c
       /\ favorites' = f
       /\ last' = [Call("load", <<>>, FALSE, r.raised) EXCEPT
                     !.cartSrc = EntryKind(store.shoppingCart),
                     !.favSrc = EntryKind(store.favorites)]
       /\ IF r.raised
          THEN \* line 422 raises: updateFavorites (line 423) never runs
            ui' = r.ui /\ store' = r.store
          ELSE ui' = g.ui /\ store' = g.store

\* addItemToCart(id, name, price, image, variant), lines 146-156
AddItemToCart(id, name, price, image, variant) ==
  LET cartItemId == CartItemId(id, variant)
      k == FindIndex(cart, cartItemId)
      c == AddItemList(cart, cartItemId, name, price, image, variant)
      r == updateCart(c, ui, page.els, store)
  IN /\ page.status = "ready"
     /\ k > 0 => cart[k].quantity < MaxQty
     /\ cart' = c
     /\ ui' = r.ui
     /\ store' = r.store
     /\ last' = [Call("add", cartItemId, k > 0, r.raised) EXCEPT
                   !.name = name, !.pid = id, !.variant = variant]
     /\ UNCHANGED <<page, favorites, other, tab>>

\* lines 168-173 of updateItemQuantity, for the item at index k
UpdateFound(id, change, k) ==
  LET c == UpdateQuantityList(cart, id, change)
      r == updateCart(c, ui, page.els, store)
  IN /\ cart[k].quantity + change <= MaxQty
     /\ cart' = c
     /\ ui' = r.ui
     /\ store' = r.store
     /\ last' = Call("update", id, TRUE, r.raised)
     /\ UNCHANGED <<page, favorites, other, tab>>

\* updateItemQuantity without line 166: item.quantity raises TypeError on undefined
UpdateItemQuantityUnguarded(id, change) ==
  LET k == FindIndex(cart, id) IN
    /\ page.status = "ready"
    /\ IF k = 0
       THEN /\ last' = Call("update", id, FALSE, TRUE)
            /\ UNCHANGED <<store, page, cart, favorites, ui, other, tab>>
       ELSE UpdateFound(id, change, k)

\* updateItemQuantity(id, change), lines 164-174
UpdateItemQuantity(id, change) ==
  LET k == FindIndex(cart, id) IN
    /\ page.status = "ready"
    /\ IF k = 0
       THEN \* line 166: if (!item) return
         /\ last' = Call("update", id, FALSE, FALSE)
         /\ UNCHANGED <<store, page, cart, favorites, ui, other, tab>>
       ELSE UpdateFound(id, change, k)

\* toggleFavorite(id, name, price, image), lines 251-262
ToggleFavorite(id, name, price, image) ==
  LET f == ToggleFavoriteList(favorites, id, name, price, image)
      g == updateFavorites(f, ui, page.els, store)
  IN /\ page.status = "ready"
     /\ favorites' = f
     /\ ui' = g.ui
     /\ store' = g.store
     /\ last' = [Call("toggle", id, id \in Ids(favorites), FALSE) EXCEPT
                   !.ret = toggleFavoriteReturn,
                   !.name = name,
                   !.preIds = Ids(favorites),
                   !.again = (last.op = "toggle" /\ last.id = id),
                   !.pre2Ids = IF last.op = "toggle" /\ last.id = id
                               THEN last.preIds ELSE {}]
     /\ UNCHANGED <<page, cart, other, tab>>

\* toggleCartModal, lines 128-135: [raised, ui, store] after the call
toggleCartModal(c, u, els, s) ==
  IF ~els.modal THEN [raised |-> FALSE, ui |-> u, store |-> s]
  ELSE
    LET isActive == u.overlayActive
        r == IF ~isActive THEN updateCart(c, u, els, s)
             ELSE [raised |-> FALSE, ui |-> u, store |-> s]
    IN IF r.raised THEN r
       ELSE [r EXCEPT !.ui.overlayActive = ~@, !.ui.modalActive = ~@]

\* a click on the cart icon, the close button or the overlay, lines 405-411
ToggleCartModal ==
  /\ page.status = "ready"
  /\ page.els.modal
  /\ LET r == toggleCartModal(cart, ui, page.els, store)
     IN /\ ui' = r.ui
        /\ store' = r.store
        /\ last' = Call("modal", <<>>, FALSE, r.raised)
  /\ UNCHANGED <<page, cart, favorites, other, tab>>

\* the ids updateItemQuantity is called with: every key a cart can hold, and the
\* bare product ids, of which p1 is never a key
UpdateIds == { CartItemId(a.d.id, a.variant) : a \in AddInputs } \cup ProductIds

Next ==
  \/ \E els \in PageKinds : PageLoad(els)
  \/ \E a \in AddInputs : AddItemToCart(a.d.id, a.d.name, a.d.price, a.d.image, a.variant)
  \/ \E id \in UpdateIds, change \in Deltas : UpdateItemQuantity(id, change)
  \/ \E d \in FavInputs : ToggleFavorite(d.id, d.name, d.price, d.image)
  \/ ToggleCartModal

Spec == Init /\ [][Next]_vars

\* what may lie under a key when a page loads: nothing, text that is not JSON, or
\* the text of an empty collection
StoredTexts == { AbsentEntry, MalformedEntry, JSONstringify(<<>>) }

InitLoad ==
  /\ store \in [shoppingCart : StoredTexts, favorites : StoredTexts]
  /\ page = [status |-> "unloaded", els |-> NoElements]
  /\ cart = <<>>
  /\ favorites = <<>>
  /\ ui = InitialUI
  /\ last = NoCall
  /\ other = NotOpened
  /\ tab = 1

SpecLoad == InitLoad /\ [][Next]_vars

----------------------------------------------------------------------------
(* The click on an add-to-cart button *)

Digits == <<"0", "1", "2", "3", "4", "5", "6", "7", "8", "9">>

IsDigit(ch) == \E i \in 1..10 : Digits[i] = ch

DigitValue(ch) == (CHOOSE i \in 1..10 : Digits[i] = ch) - 1

\* the longest run of digits a text starts with
RECURSIVE DigitPrefix(_)
DigitPrefix(t) ==
  IF t = <<>> \/ ~IsDigit(t[1]) THEN <<>> ELSE <<t[1]>> \o DigitPrefix(Tail(t))

RECURSIVE DigitsValue(_)
DigitsValue(ds) ==
  IF ds = <<>> THEN 0
  ELSE DigitsValue(SubSeq(ds, 1, Len(ds) - 1)) * 10 + DigitValue(ds[Len(ds)])

\* parseFloat on the texts of data-price: the longest prefix of the form
\* digits [. digits] is the number, whatever follows it is ignored, and a text
\* with no such prefix gives NaN; the value is kept in cents, so the texts
\* tried have at most two decimals
ParseFloat(t) ==
  LET whole == DigitPrefix(t)
      rest == SubSeq(t, Len(whole) + 1, Len(t))
      frac == IF rest # <<>> /\ rest[1] = "." THEN DigitPrefix(Tail(rest)) ELSE <<>>
      cents == DigitsValue(SubSeq(frac \o <<"0", "0">>, 1, 2))
  IN IF whole = <<>> /\ frac = <<>> THEN NaN
     ELSE Num(DigitsValue(whole) * 100 + cents)

\* the product pages a click comes from: data-id, data-name, data-price and
\* data-image of .product-details, and the data-size of the selected size
\* option, if the page has one
NoSize == [selected |-> FALSE, size |-> <<>>]
Size(t) == [selected |-> TRUE, size |-> t]

ProductPages ==
  { [id |-> P1, name |-> "Shoe", price |-> <<"9", "9", ".", "9">>, image |-> "img1",
     sizeEl |-> Size(<<"4", "2">>)],
    [id |-> P2, name |-> "Boot", price |-> <<"R", "$", "5", "0">>, image |-> "img2",
     sizeEl |-> NoSize] }

\* lines 364-365: variant = `Tamanho: ${sizeEl.dataset.size}`
ClickVariant(sizeEl) ==
  IF sizeEl.selected
  THEN Variant(<<"T", "a", "m", "a", "n", "h", "o", ":", " ">> \o sizeEl.size)
  ELSE NoVariant

\* the add-to-cart branch of the click handler, lines 352-370: addItemToCart,
\* then toggleCartModal unless addItemToCart raised
AddToCartClick(p) ==
  LET price == ParseFloat(p.price)
      variant == ClickVariant(p.sizeEl)
      cartItemId == CartItemId(p.id, variant)
      k == FindIndex(cart, cartItemId)
      c == AddItemList(cart, cartItemId, p.name, price, p.image, variant)
      r == updateCart(c, ui, page.els, store)
      m == IF r.raised THEN r ELSE toggleCartModal(c, r.ui, page.els, r.store)
  IN /\ page.status = "ready"
     /\ page.els.products
     /\ k > 0 => cart[k].quantity < MaxQty
     /\ cart' = c
     /\ ui' = m.ui
     /\ store' = m.store
     /\ last' = [Call("add", cartItemId, k > 0, m.raised) EXCEPT
                   !.name = p.name, !.pid = p.id, !.variant = variant,
                   !.click = TRUE]
     /\ UNCHANGED <<page, favorites, other, tab>>

ClickIds == { CartItemId(p.id, ClickVariant(p.sizeEl)) : p \in ProductPages }

\* the quantity buttons of a rendered cart item, lines 393-401
QuantityClick(id, change) ==
  /\ page.els.cartBody
  /\ \E i \in 1..Len(ui.cartBody.items) : ui.cartBody.items[i].id = id
  /\ UpdateItemQuantity(id, change)

\* what a visitor can do with the mouse
NextClick ==
  \/ \E els \in PageKinds : PageLoad(els)
  \/ \E p \in ProductPages : AddToCartClick(p)
  \/ \E id \in ClickIds, change \in {-1, 1} : QuantityClick(id, change)
  \/ ToggleCartModal

SpecClick == Init /\ [][NextClick]_vars

----------------------------------------------------------------------------
(* Two page instances on one store *)

\* the visitor turns to the other tab: no script runs, the two instances change
\* places
SwitchTab ==
  /\ tab' = 3 - tab
  /\ other' = [page |-> page, cart |-> cart, favorites |-> favorites, ui |-> ui]
  /\ page' = other.page
  /\ cart' = other.cart
  /\ favorites' = other.favorites
  /\ ui' = other.ui
  /\ UNCHANGED <<store, last>>

TabInputs ==
  { a \in AddInputs : a.d.name \in {"Shoe", "Boot"} }

TabIds == { CartItemId(a.d.id, a.variant) : a \in TabInputs }

\* loads and cart mutations in either of two tabs
NextTabs ==
  \/ \E els \in PageKinds : PageLoad(els)
  \/ \E a \in TabInputs : AddItemToCart(a.d.id, a.d.name, a.d.price, a.d.image, a.variant)
  \/ \E id \in TabIds, change \in {-1, 1} : UpdateItemQuantity(id, change)
  \/ SwitchTab

SpecTabs == Init /\ [][NextTabs]_vars

\* the variants the key computation is tried on: none, the empty text, two sizes
\* as the click handler writes them (`Tamanho: ${size}`), and two texts that
\* differ from the first size only in the character between ':' and the number
Tamanho(sep, n) == Variant(<<"T", "a", "m", "a", "n", "h", "o", ":", sep, "4", n>>)

KeyVariants ==
  { NoVariant, Variant(<<>>), Tamanho(" ", "2"), Tamanho(" ", "3"),
    Tamanho("-", "2"), Tamanho("\t", "2") }

KeyIds == { CartItemId(P1, v) : v \in KeyVariants }

\* one product added under every variant, and quantity changes on every key
NextKeys ==
  \/ \E els \in PageKinds : PageLoad(els)
  \/ \E v \in KeyVariants : AddItemToCart(P1, "Shoe", Num(10000), "img1", v)
  \/ \E id \in KeyIds, change \in Deltas : UpdateItemQuantity(id, change)

SpecKeys == Init /\ [][NextKeys]_vars

----------------------------------------------------------------------------
(* Properties *)

MutatingCartCall == last.op = "add" \/ (last.op = "update" /\ last.found)

UniqueCartKeys == \A i, j \in 1..Len(cart) : cart[i].id = cart[j].id => i = j

\* C1: the cart holds at most one entry per key at any time, and addItemToCart
\* with a key the cart already holds adds no entry and raises the quantity of
\* the entry with that key
C1_OneEntryPerKey ==
  /\ []UniqueCartKeys
  /\ [][(last'.op = "add" /\ last'.found) =>
          /\ Len(cart') = Len(cart)
          /\ \E k \in 1..Len(cart) :
               /\ cart[k].id = last'.id
               /\ cart'[k].id = last'.id
               /\ cart'[k].quantity > cart[k].quantity]_vars

C1_Witness ==
  /\ last.op = "add"
  /\ last.found
  /\ Len(cart) = 2
  /\ \E k \in 1..Len(cart) : cart[k].id = last.id /\ cart[k].quantity = 2

\* C2: every item in the cart has quantity >= 1; an item whose quantity
\* reaches 0 or less is removed by the call that brought it there
C2_QuantityFloor == \A i \in 1..Len(cart) : cart[i].quantity >= 1

C2_Witness ==
  /\ last.op = "update"
  /\ last.found
  /\ last.id \notin Ids(cart)
  /\ cart # <<>>

\* C3: once addItemToCart or updateItemQuantity has changed the cart and
\* ended, the text stored under shoppingCart is the text of the in-memory cart
C3_CartPersisted ==
  (page.status = "ready" /\ MutatingCartCall) => store.shoppingCart = JSONstringify(cart)

\* C4: a page load that finds a key absent or holding text that is not JSON
\* does not raise: it goes on with the empty sequence as that collection
C4_LoadRecovers ==
  LET bad == {"absent", "malformed"} IN
    (last.op = "load" /\ (last.cartSrc \in bad \/ last.favSrc \in bad)) =>
      /\ page.status = "ready"
      /\ last.cartSrc \in bad => cart = <<>>
      /\ last.favSrc \in bad => favorites = <<>>

\* C5: persisting a collection the operations produced and loading it again
\* gives the collection back, field by field
C5_RoundTrip ==
  page.status = "ready" =>
    /\ ~ParseRaises(JSONstringify(cart))
    /\ LoadCollection(JSONstringify(cart)) = cart
    /\ ~ParseRaises(JSONstringify(favorites))
    /\ LoadCollection(JSONstringify(favorites)) = favorites

\* C6: after addItemToCart or updateItemQuantity has changed the cart, the
\* subtotal shown is the sum of price * quantity over the items of the cart
C6_SubtotalIsSum ==
  (page.status = "ready" /\ page.els.cartTotal /\ MutatingCartCall) =>
    ui.cartTotal = Subtotal(cart)

\* C7 as claimed: toggleFavorite returns true when the call added the product
\* and false when it removed it
C7_ReturnsMembership ==
  last.op = "toggle" =>
    last.ret = (IF last.id \in Ids(favorites) THEN "true" ELSE "false")

\* C7: toggleFavorite returns undefined; the new membership is the opposite of
\* the old one and is read from the favourites: the id is a member after a call
\* that added it and not a member after a call that removed it
C7_ToggleFlipsMembership ==
  last.op = "toggle" =>
    /\ last.ret = "undefined"
    /\ (last.id \in Ids(favorites)) = ~last.found

C7_Witness ==
  /\ last.op = "toggle"
  /\ last.found
  /\ last.id \notin Ids(favorites)
  /\ favorites # <<>>

Flip(S, id) == IF id \in S THEN S \ {id} ELSE S \cup {id}

\* C8: of two consecutive toggleFavorite calls with one id, the first flips the
\* membership of that id and of no other, and the second gives back the set of
\* member ids there was before the first
C8_ToggleTwice ==
  (last.op = "toggle" /\ last.again) =>
    /\ last.preIds = Flip(last.pre2Ids, last.id)
    /\ Ids(favorites) = last.pre2Ids

C8_Witness ==
  /\ last.op = "toggle"
  /\ last.again
  /\ last.id \in last.pre2Ids
  /\ Len(favorites) = 2
  /\ favorites[2].id = last.id

\* C9: updateItemQuantity with an id no cart item has raises nothing and leaves
\* the cart, the two store entries and the favourites as they were
C9_UpdateAbsentNoOp ==
  [][(last'.op = "update" /\ ~last'.found) =>
       /\ ~last'.raised
       /\ cart' = cart
       /\ store' = store
       /\ favorites' = favorites]_vars

C9_Witness ==
  /\ last.op = "update"
  /\ ~last.found
  /\ ~last.raised
  /\ cart # <<>>
  /\ last.id \notin Ids(cart)

\* C10: addItemToCart with a key the cart holds raises that item's quantity by
\* 1 and leaves its other fields and every other item as they were
C10_AddExistingOnlyIncrements ==
  [][(last'.op = "add" /\ last'.found) =>
       \E k \in 1..Len(cart) :
         /\ cart[k].id = last'.id
         /\ cart' = [cart EXCEPT ![k].quantity = @ + 1]]_vars

C10_Witness ==
  /\ last.op = "add"
  /\ last.found
  /\ Len(cart) = 2
  /\ \E k \in 1..Len(cart) : cart[k].id = last.id /\ cart[k].name # last.name

\* C11 as claimed: two different non-null variants of one product never share a
\* key, so addItemToCart with a non-null variant only ever lands on an entry
\* that was added with that same variant (or with none)
C11_VariantsDistinct ==
  (last.op = "add" /\ ~last.variant.null) =>
    \A k \in 1..Len(cart) :
      cart[k].id = last.id => (cart[k].variant = last.variant \/ cart[k].variant.null)

\* the key has the form pid, '-', text with each whitespace character replaced
KeyHasForm(key, pid, text) ==
  /\ Len(key) = Len(pid) + 1 + Len(text)
  /\ SubSeq(key, 1, Len(pid)) = pid
  /\ key[Len(pid) + 1] = "-"
  /\ \A i \in 1..Len(text) :
       key[Len(pid) + 1 + i] = (IF text[i] \in {" ", "\t", "\n"} THEN "-" ELSE text[i])

KeyOfTamanho42 == <<"p", "1", "-", "T", "a", "m", "a", "n", "h", "o", ":", "-", "4", "2">>

KeptInOrder(old, new) ==
  /\ \A i \in 1..Len(new) : new[i].id \in Ids(old)
  /\ \A i, j \in 1..Len(new) :
       i < j => \E a, b \in 1..Len(old) :
                  a < b /\ old[a].id = new[i].id /\ old[b].id = new[j].id

\* C16: addItemToCart with a new key appends the item with quantity 1 after
\* the items there are; addItemToCart on a held key and updateItemQuantity keep
\* the items in their order, and a removal keeps every other item in its order
C16_StableOrder ==
  [][/\ (last'.op = "add" /\ ~last'.found) =>
          /\ Len(cart') = Len(cart) + 1
          /\ SubSeq(cart', 1, Len(cart)) = cart
          /\ cart'[Len(cart')].id = last'.id
          /\ cart'[Len(cart')].quantity = 1
     /\ (last'.op \in {"add", "update"} /\ last'.found) =>
          /\ KeptInOrder(cart, cart')
          /\ Ids(cart) \ {last'.id} \subseteq Ids(cart')
          /\ last'.op = "add" => Len(cart') = Len(cart)
     /\ (last'.op = "update" /\ ~last'.found) => cart' = cart]_vars

C16_Witness ==
  /\ last.op = "update"
  /\ last.found
  /\ last.id \notin Ids(cart)
  /\ Len(cart) = 2

\* C12: the favourites hold at most one entry per id
C12_UniqueFavoriteIds ==
  \A i, j \in 1..Len(favorites) : favorites[i].id = favorites[j].id => i = j

C12_Witness ==
  /\ last.op = "toggle"
  /\ last.again
  /\ ~last.found
  /\ Len(favorites) = 2

\* C13: when toggleFavorite has ended, the text stored under favorites is the
\* text of the in-memory favourites, and the favourites count shown is the
\* number of entries
C13_FavoritesPersisted ==
  last.op = "toggle" =>
    /\ store.favorites = JSONstringify(favorites)
    /\ page.els.favoritesCount =>
         /\ ui.favoritesCount.kind = "set"
         /\ ui.favoritesCount.text = Len(favorites)

C13_Witness ==
  /\ last.op = "toggle"
  /\ page.els.favoritesCount
  /\ Len(favorites) = 2
  /\ ui.favoritesCount.text = 2

\* C14: after addItemToCart or updateItemQuantity has changed the cart, the
\* item count shown is the sum of the quantities of the items of the cart, and
\* the badge is displayed exactly when that sum is greater than 0
C14_CountIsSum ==
  (page.status = "ready" /\ page.els.cartItemCount /\ MutatingCartCall) =>
    /\ ui.cartItemCount.kind = "set"
    /\ ui.cartItemCount.text = TotalItems(cart)
    /\ (ui.cartItemCount.display = "block") = (TotalItems(cart) > 0)

\* C19: a page load on store content the program wrote runs updateCart and
\* updateFavorites to the end: nothing is raised and the favourites count is set
C19_InitCompletes ==
  last.op = "load" =>
    /\ ~last.raised
    /\ page.els.favoritesCount => ui.favoritesCount.kind = "set"

\* C20: addItemToCart and updateItemQuantity leave the favourites and the
\* favorites entry as they were; toggleFavorite leaves the cart and the
\* shoppingCart entry as they were
C20_Independent ==
  [][/\ last'.op \in {"add", "update"} =>
          (favorites' = favorites /\ store'.favorites = store.favorites)
     /\ last'.op = "toggle" =>
          (cart' = cart /\ store'.shoppingCart = store.shoppingCart)]_vars

C20_Witness ==
  /\ last.op = "toggle"
  /\ cart # <<>>
  /\ favorites # <<>>
  /\ store.shoppingCart = JSONstringify(cart)
  /\ store.favorites = JSONstringify(favorites)

\* C17: when the click handler of an add-to-cart button has run on a page with
\* the cart modal, the modal and its overlay are both active, whether the modal
\* was open or closed before the click
C17_ClickOpensCart ==
  (last.op = "add" /\ last.click /\ page.els.modal) =>
    (ui.modalActive /\ ui.overlayActive)

\* the cart of the page instance that ran the last handler
CartOfLastTab == IF last.tab = tab THEN cart ELSE other.cart

BothLoaded == page.status = "ready" /\ other.page.status = "ready"

\* C18: with two loaded page instances on one store, after a cart mutation in
\* either of them the shoppingCart entry is the text of the whole cart of the
\* instance that mutated, whatever the other instance holds or had stored
C18_LastWriteWins ==
  (BothLoaded /\ MutatingCartCall) =>
    store.shoppingCart = JSONstringify(CartOfLastTab)

====
